---------------------------- MODULE Spec2Model ----------------------------
(***************************************************************************)
(* A model of the csv-rs attestation core:                                 *)
(*   - ReportReq::new and its integrity hash      (api/guest/types.rs)     *)
(*   - ReportSigner::verify / restore             (api/guest/types.rs)     *)
(*   - the GuestPolicy bit fields                 (api/guest/types.rs)     *)
(*   - the layout of ReportRsp                    (api/guest/types.rs)     *)
(*   - verification of (Certificate, AttestationReport)                    *)
(*   - Command::from / Command::from_mut          (api/platform/ioctl.rs)  *)
(*                                                                         *)
(* Byte arrays are sequences of naturals below 256.  The arrays of the     *)
(* program (2084, 64, 32 and 16 bytes) are kept to a few bytes each; the   *)
(* lengths are the bounds CertLen, SnLen, ReservedLen, DataLen, NonceLen.  *)
(* A u32 is a record [hi, lo] of its two 16-bit halves, so that all of its  *)
(* 32 bits are there: the integers of the model stay below 2^31.           *)
(*                                                                         *)
(* SM3 and HMAC-SM3 come from OpenSSL.  They are modelled as ideal         *)
(* (collision-free) primitives: a digest is the term that records what was *)
(* hashed, in the order in which it was fed to the hasher.                 *)
(***************************************************************************)
EXTENDS Integers, Sequences, FiniteSets

VARIABLES
    \* ReportSigner::verify
    signer,      \* the ReportSigner: pek_cert, sn, reserved, mac
    v_entry,     \* the ReportSigner on entry to the last call of verify
    v_args,      \* the arguments of the last call of verify
    v_result,    \* what the last call of verify returned
    v_repeat,    \* the last call followed, with the same arguments, one that returned Ok
    \* ReportReq::new
    req,         \* the request the last call of new returned
    r_args,      \* the arguments of the last call of new
    r_result,    \* what the last call of new returned
    r_prev,      \* the call of new before the last: its req, args and result
    \* GuestPolicy
    policy,      \* the policy word
    p_view,      \* the word last read and what its accessors returned
    \* Command
    cmd,         \* the Command last built: code, data, error
    c_call,      \* how it was built: the operation T, the mode, the payload's address
    \* ReportRsp
    l_sig,       \* size and alignment of ecdsa::Signature in this build
    layout,      \* the layout of ReportRsp the build computed
    \* (&Certificate, &AttestationReport)::verify
    cert,        \* the certificate
    rep_a,       \* a report
    rep_b,       \* another report
    res_a,       \* the result of verifying (cert, rep_a)
    res_b        \* the result of verifying (cert, rep_b)

signerVars == <<signer, v_entry, v_args, v_result, v_repeat>>
reqVars == <<req, r_args, r_result, r_prev>>
policyVars == <<policy, p_view>>
cmdVars == <<cmd, c_call>>
layoutVars == <<l_sig, layout>>
chainVars == <<cert, rep_a, rep_b, res_a, res_b>>

vars == <<signerVars, reqVars, policyVars, cmdVars, layoutVars, chainVars>>

---------------------------------------------------------------------------
\* Bounds of the model: the lengths kept of the program's byte arrays.

\* pek_cert: [u8; 2084]
CertLen == 5
\* sn: [u8; 64]
SnLen == 2
\* reserved: [u8; 32]
ReservedLen == 1
\* data: [u8; 64]
DataLen == 2
\* mnonce: [u8; 16]
NonceLen == 5

---------------------------------------------------------------------------
\* Bytes and words.

ByteMod == 256

RECURSIVE BitXor(_, _)
\* a ^ b on naturals
BitXor(a, b) ==
    IF a = 0 THEN b
    ELSE IF b = 0 THEN a
    ELSE ((a + b) % 2) + 2 * BitXor(a \div 2, b \div 2)

\* len bytes: first, first + step, first + 2 * step, ...
Fill(len, first, step) == [i \in 1..len |-> (first + step * (i - 1)) % ByteMod]

Zeros(len) == [i \in 1..len |-> 0]

\* A u32 from its two 16-bit halves.
U32(hi, lo) == [hi |-> hi, lo |-> lo]

\* u32::to_le_bytes: least significant byte first.
to_le_bytes(x) ==
    <<x.lo % ByteMod, x.lo \div ByteMod, x.hi % ByteMod, x.hi \div ByteMod>>

\* The length of the keystream: anonce_array = [0u8; 4].
AnonceBytes == 4

\* xor_with_anonce with the keystream running on from one byte to the next
\* without wrapping at the fourth.
xor_with_anonce_nowrap(data, anonce) ==
    [i \in 1..Len(data) |->
        IF i <= AnonceBytes THEN BitXor(data[i], to_le_bytes(anonce)[i])
        ELSE data[i]]

\* xor_with_anonce: item i (from 0) is xored with anonce_array[i % 4].
xor_with_anonce(data, anonce) ==
    [i \in 1..Len(data) |->
        BitXor(data[i], to_le_bytes(anonce)[((i - 1) % AnonceBytes) + 1])]

---------------------------------------------------------------------------
\* OpenSSL's digests, as ideal primitives.

\* Hasher::new(MessageDigest::sm3()), then update, update, ..., then finish.
HasherNew == <<>>
HasherUpdate(h, bytes) == h \o bytes
HasherFinish(h) == [alg |-> "sm3", key |-> <<>>, msg |-> h]

\* PKey::hmac(key), Signer::new(MessageDigest::sm3(), &key), then update, ...,
\* then sign_to_vec.
SignerNew(key) == [key |-> key, msg |-> <<>>]
SignerUpdate(s, bytes) == [s EXCEPT !.msg = @ \o bytes]
SignToVec(s) == [alg |-> "hmac_sm3", key |-> s.key, msg |-> s.msg]

\* [0u8; 32]: the value of a hash or mac field that was never filled in.
ZeroDigest == [alg |-> "zero", key |-> <<>>, msg |-> <<>>]

---------------------------------------------------------------------------
\* ReportSigner.

\* The MAC over the evidence: the signer is fed pek_cert, then sn, then
\* reserved.
ComputeMac(self, key) ==
    SignToVec(
        SignerUpdate(
            SignerUpdate(
                SignerUpdate(SignerNew(key), self.pek_cert),
                self.sn),
            self.reserved))

\* ReportSigner::restore keeping reserved as it is.
restore_keep_reserved(self, anonce) ==
    [self EXCEPT !.pek_cert = xor_with_anonce(self.pek_cert, anonce),
                 !.sn = xor_with_anonce(self.sn, anonce)]

\* ReportSigner::restore
restore(self, anonce) ==
    [self EXCEPT !.pek_cert = xor_with_anonce(self.pek_cert, anonce),
                 !.sn = xor_with_anonce(self.sn, anonce),
                 !.reserved = Zeros(Len(self.reserved))]

\* A MAC comparison that finds no difference.
MacMismatchNever(computed, stored) == FALSE

\* The MAC check of verify: sig.sign_to_vec()? != self.mac.
MacMismatch(computed, stored) == computed # stored

\* The nonce check of verify: real_mnonce != input_mnonce.
NonceMismatch(real_mnonce, input_mnonce) == real_mnonce # input_mnonce

\* verify with the MAC comparison left out.
verify_no_mac(self, input_mnonce, mnonce, anonce, lib_ok) ==
    LET real_mnonce == xor_with_anonce(mnonce, anonce) IN
    IF NonceMismatch(real_mnonce, input_mnonce)
    THEN [result |-> "BadSignature", self |-> self]
    ELSE IF ~lib_ok
    THEN [result |-> "LibraryError", self |-> self]
    ELSE [result |-> "Ok", self |-> restore(self, anonce)]

\* verify restoring the evidence before it checks the MAC.
verify_restore_first(self, input_mnonce, mnonce, anonce, lib_ok) ==
    LET real_mnonce == xor_with_anonce(mnonce, anonce) IN
    IF NonceMismatch(real_mnonce, input_mnonce)
    THEN [result |-> "BadSignature", self |-> self]
    ELSE IF ~lib_ok
    THEN [result |-> "LibraryError", self |-> self]
    ELSE IF MacMismatch(ComputeMac(self, real_mnonce), self.mac)
    THEN [result |-> "BadSignature", self |-> restore(self, anonce)]
    ELSE [result |-> "Ok", self |-> restore(self, anonce)]

\* ReportSigner::verify.  lib_ok: every OpenSSL call of this run succeeds
\* (PKey::hmac, Signer::new, update, sign_to_vec); otherwise the first that
\* fails ends the call with its error, through `?`.
verify(self, input_mnonce, mnonce, anonce, lib_ok) ==
    LET real_mnonce == xor_with_anonce(mnonce, anonce) IN
    IF NonceMismatch(real_mnonce, input_mnonce)
    THEN [result |-> "BadSignature", self |-> self]
    ELSE IF ~lib_ok
    THEN [result |-> "LibraryError", self |-> self]
    ELSE IF MacMismatch(ComputeMac(self, real_mnonce), self.mac)
    THEN [result |-> "BadSignature", self |-> self]
    ELSE [result |-> "Ok", self |-> restore(self, anonce)]

\* The session values the firmware may have chosen.
Anonces == {U32(0, 0), U32(1027, 513)}

\* The plain nonces of the guest owner.
PlainNonces == {Fill(NonceLen, 16, 1), Fill(NonceLen, 19, 2)}

\* The nonces verify may be given as mnonce: the nonce of a report body, as
\* the firmware masks it, or any other slice.
MNonces ==
    {xor_with_anonce(p, a) : p \in PlainNonces, a \in Anonces}
    \cup {Fill(NonceLen - 1, 16, 1), <<>>}

\* The nonces a caller may claim as input_mnonce.
InputNonces == PlainNonces \cup {Fill(NonceLen - 1, 16, 1), <<>>}

CertSamples == {Fill(CertLen, 48, 1), Fill(CertLen, 0, 0)}
SnSamples == {Fill(SnLen, 200, 7), Fill(SnLen, 0, 0)}
ReservedSamples == {Zeros(ReservedLen), Fill(ReservedLen, 9, 1)}

\* The keys under which the firmware may have computed the MAC.
MacKeys == PlainNonces

\* The MAC the firmware stores: HMAC-SM3 under the plain nonce over the
\* obfuscated pek_cert, the obfuscated sn and reserved.
FirmwareMac(key, c, s, r) == [alg |-> "hmac_sm3", key |-> key, msg |-> c \o s \o r]

\* The evidence of a response: the MAC is the firmware's, or was never set.
Evidence ==
    {[pek_cert |-> c, sn |-> s, reserved |-> r, mac |-> m] :
        c \in CertSamples, s \in SnSamples, r \in ReservedSamples,
        m \in {ZeroDigest}}
    \cup
    {[pek_cert |-> c, sn |-> s, reserved |-> r, mac |-> FirmwareMac(k, c, s, r)] :
        c \in CertSamples, s \in SnSamples, r \in ReservedSamples, k \in MacKeys}

NoArgs == [input_mnonce |-> <<>>, mnonce |-> <<>>, anonce |-> U32(0, 0), lib_ok |-> TRUE]

SignerInit ==
    /\ signer \in Evidence
    /\ v_entry = signer
    /\ v_args = NoArgs
    /\ v_result = "none"
    /\ v_repeat = FALSE

\* ReportSigner::default
SignerIdle ==
    /\ signer = [pek_cert |-> Zeros(CertLen), sn |-> Zeros(SnLen),
                 reserved |-> Zeros(ReservedLen), mac |-> ZeroDigest]
    /\ v_entry = signer
    /\ v_args = NoArgs
    /\ v_result = "none"
    /\ v_repeat = FALSE

Verify(input_mnonce, mnonce, anonce, lib_ok) ==
    LET out == verify(signer, input_mnonce, mnonce, anonce, lib_ok)
        args == [input_mnonce |-> input_mnonce, mnonce |-> mnonce,
                 anonce |-> anonce, lib_ok |-> lib_ok]
    IN /\ signer' = out.self
       /\ v_entry' = signer
       /\ v_args' = args
       /\ v_result' = out.result
       /\ v_repeat' = /\ v_result = "Ok"
                      /\ v_args.input_mnonce = input_mnonce
                      /\ v_args.mnonce = mnonce
                      /\ v_args.anonce = anonce
       /\ UNCHANGED <<reqVars, policyVars, cmdVars, layoutVars, chainVars>>

CallVerify ==
    \E input_mnonce \in InputNonces, mnonce \in MNonces, anonce \in Anonces,
       lib_ok \in BOOLEAN :
        Verify(input_mnonce, mnonce, anonce, lib_ok)

---------------------------------------------------------------------------
\* What the claims about ReportSigner::verify speak of, stated on the entry
\* values of the last call.

\* Byte k (0 the least significant) of the little-endian encoding of a u32.
AnonceByte(anonce, k) ==
    IF k < 2 THEN (anonce.lo \div (256 ^ k)) % 256
    ELSE (anonce.hi \div (256 ^ (k - 2))) % 256

\* data[i] XOR byte (i mod 4) of anonce, the index starting at 0.
Unmasked(data, anonce) ==
    [i \in 1..Len(data) |-> BitXor(data[i], AnonceByte(anonce, (i - 1) % 4))]

Differs(a, b) == Len(a) # Len(b) \/ \E i \in 1..Len(a) : a[i] # b[i]

Called == v_result # "none"

ExpectedNonce == Unmasked(v_args.mnonce, v_args.anonce)

NonceCheckPasses == ~Differs(v_args.input_mnonce, ExpectedNonce)

\* HMAC(key = recomputed plain nonce, message = pek_cert || sn || reserved)
\* over the fields on entry.
ExpectedMac ==
    [alg |-> "hmac_sm3", key |-> ExpectedNonce,
     msg |-> v_entry.pek_cert \o v_entry.sn \o v_entry.reserved]

EvidenceUnchanged == signer = v_entry

\* C2: verify returns BadSignature whenever input_mnonce differs, in a byte or
\* in length, from mnonce[i] XOR byte (i mod 4) of the little-endian anonce;
\* whatever the stored MAC is and whether or not the HMAC could be computed.
C2_NonceMismatchIsBadSignature ==
    (Called /\ Differs(v_args.input_mnonce, ExpectedNonce))
        => v_result = "BadSignature"

\* A claimed nonce of the right length but not the recomputed one was
\* refused although the stored MAC was the right one for the recomputed nonce.
C2_Witness ==
    /\ Called
    /\ Differs(v_args.input_mnonce, ExpectedNonce)
    /\ Len(v_args.input_mnonce) = Len(ExpectedNonce)
    /\ v_args.anonce # U32(0, 0)
    /\ v_entry.mac = ExpectedMac
    /\ v_result = "BadSignature"

\* C3: when the nonce check passes and the HMAC is computed, verify returns
\* BadSignature whenever the stored mac differs from the HMAC, keyed with the
\* recomputed plain nonce, of pek_cert || sn || reserved as they are on entry.
C3_MacMismatchIsBadSignature ==
    (Called /\ NonceCheckPasses /\ v_args.lib_ok /\ v_entry.mac # ExpectedMac)
        => v_result = "BadSignature"

\* The MAC was the firmware's for these fields, but under another nonce.
C3_Witness ==
    /\ Called
    /\ NonceCheckPasses
    /\ v_args.lib_ok
    /\ v_entry.mac # ExpectedMac
    /\ v_entry.mac.alg = "hmac_sm3"
    /\ v_entry.mac.msg = ExpectedMac.msg
    /\ v_result = "BadSignature"

\* C4: when the nonce check and the MAC check pass, verify returns Ok, and
\* pek_cert and sn are their entry values XOR the keystream (restarting at 0
\* for each field), reserved is zero and mac is unchanged.
C4_SuccessRestores ==
    (Called /\ NonceCheckPasses /\ v_args.lib_ok /\ v_entry.mac = ExpectedMac)
        => /\ v_result = "Ok"
           /\ signer.pek_cert = Unmasked(v_entry.pek_cert, v_args.anonce)
           /\ signer.sn = Unmasked(v_entry.sn, v_args.anonce)
           /\ Len(signer.reserved) = Len(v_entry.reserved)
           /\ \A i \in 1..Len(signer.reserved) : signer.reserved[i] = 0
           /\ signer.mac = v_entry.mac

\* A successful call that changed pek_cert beyond its fourth byte, changed
\* sn and cleared a reserved region that was not zero.
C4_Witness ==
    /\ v_result = "Ok"
    /\ Len(signer.pek_cert) > 4
    /\ signer.pek_cert[5] # v_entry.pek_cert[5]
    /\ signer.sn # v_entry.sn
    /\ v_entry.reserved # signer.reserved

\* C5 as the specification states it: a second call of verify with the same
\* arguments, after a first that returned Ok, applies the keystream again, so
\* that the evidence changes again.  Stated for the calls where a keystream
\* applied again would show: the anonce is not zero and the library works.
C5_RepeatChangesEvidence ==
    (v_repeat /\ v_args.lib_ok /\ v_args.anonce # U32(0, 0)) => ~EvidenceUnchanged

\* C5 amended: a second call of verify with the same arguments, after a first
\* that returned Ok, leaves the evidence as the first call left it; unless
\* the library fails it returns BadSignature (the MAC check fails on the
\* restored fields), or Ok when the first call had changed nothing.
C5_RepeatLeavesEvidence ==
    v_repeat =>
        /\ EvidenceUnchanged
        /\ v_args.lib_ok => v_result \in {"Ok", "BadSignature"}
        /\ v_result = "Ok" => restore(v_entry, v_args.anonce) = v_entry

\* The second call, on evidence the first had restored with a keystream that
\* is not zero, was refused at the MAC check.
C5_Witness ==
    /\ v_repeat
    /\ NonceCheckPasses
    /\ v_args.lib_ok
    /\ v_args.anonce # U32(0, 0)
    /\ v_entry.mac # ExpectedMac
    /\ v_result = "BadSignature"

\* C6: the evidence changes only when the nonce check and the MAC check have
\* both passed; a call that returns an error leaves pek_cert, sn, reserved and
\* mac as they were on entry.
C6_ErrorLeavesEvidence ==
    /\ (Called /\ v_result # "Ok") => EvidenceUnchanged
    /\ (Called /\ ~EvidenceUnchanged)
          => (NonceCheckPasses /\ v_entry.mac = ExpectedMac)

\* A call refused at the MAC check on evidence that restore would have
\* changed.
C6_Witness ==
    /\ Called
    /\ NonceCheckPasses
    /\ v_result = "BadSignature"
    /\ v_args.anonce # U32(0, 0)
    /\ v_entry.reserved # Zeros(Len(v_entry.reserved))
    /\ EvidenceUnchanged
---------------------------------------------------------------------------
\* ReportReq.

\* Option<[u8; 64]>
None == [some |-> FALSE, val |-> <<>>]
Some(v) == [some |-> TRUE, val |-> v]

\* ReportReq::default
ReportReqDefault ==
    [data |-> Zeros(DataLen), mnonce |-> Zeros(NonceLen), hash |-> ZeroDigest]

\* calculate_hash feeding the hasher mnonce before data.
calculate_hash_nonce_first(self) ==
    [self EXCEPT !.hash =
        HasherFinish(HasherUpdate(HasherUpdate(HasherNew, self.mnonce), self.data))]

\* ReportReq::calculate_hash, when every OpenSSL call succeeds: the hasher is
\* fed data, then mnonce, and its digest is copied into hash.
calculate_hash(self) ==
    [self EXCEPT !.hash =
        HasherFinish(HasherUpdate(HasherUpdate(HasherNew, self.data), self.mnonce))]

\* ReportReq::new.  lib_ok: every OpenSSL call of calculate_hash succeeds
\* (Hasher::new, update, finish); otherwise new returns the error and no
\* request.
ReportReq_new(data, mnonce, lib_ok) ==
    LET request == [ReportReqDefault EXCEPT
                        !.data = IF data.some THEN data.val ELSE @,
                        !.mnonce = mnonce]
    IN IF lib_ok
       THEN [result |-> "Ok", request |-> calculate_hash(request)]
       ELSE [result |-> "LibraryError", request |-> ReportReqDefault]

DataSamples == {Zeros(DataLen), Fill(DataLen, 103, 95), Fill(DataLen, 112, 121)}
NonceSamples == {Fill(NonceLen, 112, 121), Fill(NonceLen, 0, 233), Fill(NonceLen, 103, 95)}

NoNewArgs == [data |-> None, mnonce |-> Zeros(NonceLen), lib_ok |-> TRUE]
NoCall == [req |-> ReportReqDefault, args |-> NoNewArgs, result |-> "none"]

ReqIdle ==
    /\ req = ReportReqDefault
    /\ r_args = NoNewArgs
    /\ r_result = "none"
    /\ r_prev = NoCall

New(data, mnonce, lib_ok) ==
    LET out == ReportReq_new(data, mnonce, lib_ok) IN
    /\ req' = out.request
    /\ r_args' = [data |-> data, mnonce |-> mnonce, lib_ok |-> lib_ok]
    /\ r_result' = out.result
    /\ r_prev' = [req |-> req, args |-> r_args, result |-> r_result]
    /\ UNCHANGED <<signerVars, policyVars, cmdVars, layoutVars, chainVars>>

CallNew ==
    \E data \in {None} \cup {Some(d) : d \in DataSamples},
       mnonce \in NonceSamples, lib_ok \in BOOLEAN :
        New(data, mnonce, lib_ok)

\* The data a call was given: absent data counts as zero bytes.
GivenData(args) == IF args.data.some THEN args.data.val ELSE [i \in 1..DataLen |-> 0]

\* Hash(data || nonce): data hashed first, nonce second.
HashOf(data, nonce) == [alg |-> "sm3", key |-> <<>>, msg |-> data \o nonce]

\* C1: a successful ReportReq::new(data, nonce) returns a request whose data is
\* the given buffer (zero bytes when absent), whose mnonce is the given nonce
\* and whose hash is Hash(data || nonce); two successful calls that differ in
\* data or in nonce return requests that are not equal.
C1_NewBindsDataAndNonce ==
    /\ r_result = "Ok" =>
          /\ req.data = GivenData(r_args)
          /\ req.mnonce = r_args.mnonce
          /\ req.hash = HashOf(GivenData(r_args), r_args.mnonce)
    /\ (r_result = "Ok" /\ r_prev.result = "Ok"
        /\ (GivenData(r_args) # GivenData(r_prev.args)
            \/ r_args.mnonce # r_prev.args.mnonce))
          => req # r_prev.req

\* Two successful calls with the same data (absent) and different nonces.
C1_Witness ==
    /\ r_result = "Ok"
    /\ r_prev.result = "Ok"
    /\ ~r_args.data.some
    /\ ~r_prev.args.data.some
    /\ r_args.mnonce # r_prev.args.mnonce
    /\ req.hash # r_prev.req.hash
    /\ req.data = r_prev.req.data

---------------------------------------------------------------------------
\* GuestPolicy(u32): the bit fields of the bitfield! declaration.

\* The sixteen bits of each half of the word.
HalfBits == 16

\* Bit i (0 the least significant) of a u32.
Bit(w, i) ==
    IF i < HalfBits THEN (w.lo \div (2 ^ i)) % 2
    ELSE (w.hi \div (2 ^ (i - HalfBits))) % 2

RECURSIVE bit_range(_, _, _)
\* A getter `name, _: msb, lsb`: the value of bits lsb..msb of the word.
bit_range(w, msb, lsb) ==
    IF msb < lsb THEN 0
    ELSE Bit(w, lsb) + 2 * bit_range(w, msb, lsb + 1)

nodbg(w) == bit_range(w, 0, 0)
noks(w) == bit_range(w, 1, 1)
es(w) == bit_range(w, 2, 2)
nosend(w) == bit_range(w, 3, 3)
domain(w) == bit_range(w, 4, 4)
csv(w) == bit_range(w, 5, 5)
csv3(w) == bit_range(w, 6, 6)
asid_reuse(w) == bit_range(w, 7, 7)
hsk_version(w) == bit_range(w, 11, 8)
cek_version(w) == bit_range(w, 15, 12)
api_major(w) == bit_range(w, 23, 16)

\* api_minor declared one bit short.
api_minor_short(w) == bit_range(w, 30, 24)

api_minor(w) == bit_range(w, 31, 24)

\* GuestPolicy::xor
xor(w, anonce) == U32(BitXor(w.hi, anonce.hi), BitXor(w.lo, anonce.lo))

\* What the twelve accessors return for a word.
Accessors(w) ==
    [word |-> w,
     nodbg |-> nodbg(w), noks |-> noks(w), es |-> es(w), nosend |-> nosend(w),
     domain |-> domain(w), csv |-> csv(w), csv3 |-> csv3(w),
     asid_reuse |-> asid_reuse(w), hsk_version |-> hsk_version(w),
     cek_version |-> cek_version(w), api_major |-> api_major(w),
     api_minor |-> api_minor(w)]

\* The halves the sample policy words are made of.
PolicyHalves == {0, 1, 128, 255, 3840, 23100, 32768, 42435, 61440, 65535}

PolicyWords == {U32(h, l) : h, l \in PolicyHalves}

\* The words a policy is masked with.
PolicyMasks == {U32(65535, 65280), U32(1027, 513)}

\* GuestPolicy::default
PolicyIdle ==
    /\ policy = U32(0, 0)
    /\ p_view = Accessors(U32(0, 0))

PolicyInit ==
    /\ policy \in PolicyWords
    /\ p_view = Accessors(U32(0, 0))

ReadPolicy ==
    /\ p_view' = Accessors(policy)
    /\ UNCHANGED <<policy, signerVars, reqVars, cmdVars, layoutVars, chainVars>>

XorPolicy(anonce) ==
    /\ policy' = xor(policy, anonce)
    /\ UNCHANGED <<p_view, signerVars, reqVars, cmdVars, layoutVars, chainVars>>

CallXor == \E anonce \in PolicyMasks : XorPolicy(anonce)

\* Bits lsb..msb of the low half, and of the high half, by division.
LowBits(w, msb, lsb) == (w.lo \div (2 ^ lsb)) % (2 ^ (msb - lsb + 1))
HighBits(w, msb, lsb) == (w.hi \div (2 ^ (lsb - 16))) % (2 ^ (msb - lsb + 1))

RECURSIVE RangeMask(_, _)
\* 2^lsb + ... + 2^msb
RangeMask(msb, lsb) == IF msb < lsb THEN 0 ELSE (2 ^ msb) + RangeMask(msb - 1, lsb)

\* The word with every bit outside lsb..msb inverted (a range lies in one half).
OutsideInverted(w, msb, lsb) ==
    IF msb < 16
    THEN [hi |-> BitXor(w.hi, 65535),
          lo |-> BitXor(w.lo, 65535 - RangeMask(msb, lsb))]
    ELSE [hi |-> BitXor(w.hi, 65535 - RangeMask(msb - 16, lsb - 16)),
          lo |-> BitXor(w.lo, 65535)]

\* C7: each accessor returns exactly its declared bit range of the word, the
\* same whatever the bits outside the range are, and the twelve values put
\* back at their positions give the word again.
C7_PolicyFieldsRoundTrip ==
    LET w == p_view.word IN
    /\ p_view.nodbg = LowBits(w, 0, 0)
    /\ p_view.noks = LowBits(w, 1, 1)
    /\ p_view.es = LowBits(w, 2, 2)
    /\ p_view.nosend = LowBits(w, 3, 3)
    /\ p_view.domain = LowBits(w, 4, 4)
    /\ p_view.csv = LowBits(w, 5, 5)
    /\ p_view.csv3 = LowBits(w, 6, 6)
    /\ p_view.asid_reuse = LowBits(w, 7, 7)
    /\ p_view.hsk_version = LowBits(w, 11, 8)
    /\ p_view.cek_version = LowBits(w, 15, 12)
    /\ p_view.api_major = HighBits(w, 23, 16)
    /\ p_view.api_minor = HighBits(w, 31, 24)
    /\ nodbg(OutsideInverted(w, 0, 0)) = p_view.nodbg
    /\ noks(OutsideInverted(w, 1, 1)) = p_view.noks
    /\ es(OutsideInverted(w, 2, 2)) = p_view.es
    /\ nosend(OutsideInverted(w, 3, 3)) = p_view.nosend
    /\ domain(OutsideInverted(w, 4, 4)) = p_view.domain
    /\ csv(OutsideInverted(w, 5, 5)) = p_view.csv
    /\ csv3(OutsideInverted(w, 6, 6)) = p_view.csv3
    /\ asid_reuse(OutsideInverted(w, 7, 7)) = p_view.asid_reuse
    /\ hsk_version(OutsideInverted(w, 11, 8)) = p_view.hsk_version
    /\ cek_version(OutsideInverted(w, 15, 12)) = p_view.cek_version
    /\ api_major(OutsideInverted(w, 23, 16)) = p_view.api_major
    /\ api_minor(OutsideInverted(w, 31, 24)) = p_view.api_minor
    /\ w.lo = p_view.nodbg + 2 * p_view.noks + 4 * p_view.es
              + 8 * p_view.nosend + 16 * p_view.domain + 32 * p_view.csv
              + 64 * p_view.csv3 + 128 * p_view.asid_reuse
              + 256 * p_view.hsk_version + 4096 * p_view.cek_version
    /\ w.hi = p_view.api_major + 256 * p_view.api_minor

\* A word read with bit 31 set and with fields that differ from one another.
C7_Witness ==
    /\ p_view.word = policy
    /\ p_view.api_minor >= 128
    /\ p_view.api_major # p_view.api_minor
    /\ p_view.hsk_version # p_view.cek_version
    /\ p_view.nodbg = 1
    /\ p_view.noks = 0

---------------------------------------------------------------------------
\* Command<T: Id>.

\* The operations bound by impl_const_id!.
Ops ==
    {"PlatformReset", "PlatformStatus", "PekGen", "PekCsr", "PdhGen",
     "PdhCertExport", "PekCertImport", "GetId"}

\* The table with PekCsr given the opcode of PekGen.
Id_pek_csr_as_pek_gen(T) ==
    CASE T = "PlatformReset" -> 0
      [] T = "PlatformStatus" -> 1
      [] T = "PekGen" -> 2
      [] T = "PekCsr" -> 2
      [] T = "PdhGen" -> 4
      [] T = "PdhCertExport" -> 5
      [] T = "PekCertImport" -> 6
      [] T = "GetId" -> 8

\* T::ID
Id(T) ==
    CASE T = "PlatformReset" -> 0
      [] T = "PlatformStatus" -> 1
      [] T = "PekGen" -> 2
      [] T = "PekCsr" -> 3
      [] T = "PdhGen" -> 4
      [] T = "PdhCertExport" -> 5
      [] T = "PekCertImport" -> 6
      [] T = "GetId" -> 8

\* Command::from_mut(subcmd), subcmd a payload of operation T at address addr.
from_mut(T, addr) == [code |-> Id(T), data |-> addr, error |-> 0]

\* Command::from(subcmd)
from(T, addr) == [code |-> Id(T), data |-> addr, error |-> 0]

\* Where a payload may lie.
Addresses == {8, 4096, 4104, 65536, 1048584, 268435456, 2147479552}

NoCommand == [op |-> "none", mode |-> "none", addr |-> 0]

CmdIdle ==
    /\ cmd = [code |-> 0, data |-> 0, error |-> 0]
    /\ c_call = NoCommand

FromMut(T, addr) ==
    /\ cmd' = from_mut(T, addr)
    /\ c_call' = [op |-> T, mode |-> "from_mut", addr |-> addr]
    /\ UNCHANGED <<signerVars, reqVars, policyVars, layoutVars, chainVars>>

From(T, addr) ==
    /\ cmd' = from(T, addr)
    /\ c_call' = [op |-> T, mode |-> "from", addr |-> addr]
    /\ UNCHANGED <<signerVars, reqVars, policyVars, layoutVars, chainVars>>

CallFromMut == \E T \in Ops, addr \in Addresses : FromMut(T, addr)
CallFrom == \E T \in Ops, addr \in Addresses : From(T, addr)

\* The opcodes of include/uapi/linux/psp-sev.h.
Opcode ==
    [PlatformReset |-> 0, PlatformStatus |-> 1, PekGen |-> 2, PekCsr |-> 3,
     PdhGen |-> 4, PdhCertExport |-> 5, PekCertImport |-> 6, GetId |-> 8]

\* C8: a Command built by from or from_mut for a payload of operation T has
\* code T's opcode, data the payload's address and error 0, in both modes and
\* at every address; no two operations have the same opcode.
C8_CommandCarriesOpcode ==
    /\ c_call.mode # "none" =>
          /\ cmd.code = Opcode[c_call.op]
          /\ cmd.data = c_call.addr
          /\ cmd.error = 0
    /\ \A T1, T2 \in Ops : T1 # T2 => Id(T1) # Id(T2)

\* A PekCsr command built in the immutable mode.
C8_Witness ==
    /\ c_call.mode = "from"
    /\ c_call.op = "PekCsr"
    /\ cmd.code = 3
    /\ cmd.data = 2147479552

---------------------------------------------------------------------------
\* The layout of ReportRsp.  Every struct is #[repr(C)]: its fields lie in
\* declaration order, each at the next multiple of its alignment, and the
\* size is rounded up to the alignment of the struct.

\* One memory page.
PageSize == 4096

RoundUp(n, a) == ((n + a - 1) \div a) * a

Max(a, b) == IF a >= b THEN a ELSE b

\* Size and alignment of a #[repr(C)] struct with these fields.
LayoutOf(fields) ==
    LET end[k \in 0..Len(fields)] ==
            IF k = 0 THEN 0
            ELSE RoundUp(end[k - 1], fields[k].align) + fields[k].size
        align[k \in 0..Len(fields)] ==
            IF k = 0 THEN 1 ELSE Max(align[k - 1], fields[k].align)
    IN [size |-> RoundUp(end[Len(fields)], align[Len(fields)]),
        align |-> align[Len(fields)]]

Bytes(n) == [size |-> n, align |-> 1]
Word32 == [size |-> 4, align |-> 4]

\* Body: six byte arrays and the GuestPolicy(u32).
BodyFields == <<Bytes(32), Bytes(16), Bytes(16), Bytes(64), Bytes(16), Bytes(32), Word32>>

\* AttestationReport: body, sig_usage, sig_algo, anonce, sig.
AttestationReportFields(sig) == <<LayoutOf(BodyFields), Word32, Word32, Word32, sig>>

\* ReportSigner: pek_cert, sn, reserved, mac.
ReportSignerFields == <<Bytes(2084), Bytes(64), Bytes(32), Bytes(32)>>

\* The padding computed from the report alone.
PaddingLenReportOnly(report_size, signer_size) == PageSize - report_size

\* The length of ReportRsp::reserved.
PaddingLen(report_size, signer_size) == PageSize - (report_size + signer_size)

\* What the build makes of ReportRsp: the array length must not be negative
\* (a usize constant) and const_assert! must hold, or the crate does not
\* compile.
ReportRspLayout(sig) ==
    LET report == LayoutOf(AttestationReportFields(sig))
        sgn == LayoutOf(ReportSignerFields)
        pad == PaddingLen(report.size, sgn.size)
        rsp == LayoutOf(<<report, sgn, Bytes(Max(pad, 0))>>)
    IN [status |-> IF pad >= 0 /\ rsp.size = PageSize
                   THEN "built" ELSE "compile_error",
        size |-> IF pad >= 0 THEN rsp.size ELSE 0,
        report_size |-> report.size,
        signer_size |-> sgn.size,
        reserved_len |-> pad]

\* The sizes and alignments ecdsa::Signature may have.
SigSizes == {n \in 0..160 : n % 2 = 0} \cup {n \in 1680..1700 : n % 2 = 0} \cup {4000}
SigSamples ==
    {s \in {[size |-> n, align |-> a] : n \in SigSizes, a \in {1, 2, 4, 8}} :
        s.size % s.align = 0}

NotBuilt ==
    [status |-> "none", size |-> 0, report_size |-> 0, signer_size |-> 0,
     reserved_len |-> 0]

LayoutIdle ==
    /\ l_sig = Bytes(0)
    /\ layout = NotBuilt

LayoutInit ==
    /\ l_sig \in SigSamples
    /\ layout = NotBuilt

Build ==
    /\ layout.status = "none"
    /\ layout' = ReportRspLayout(l_sig)
    /\ UNCHANGED <<l_sig, signerVars, reqVars, policyVars, cmdVars, chainVars>>

\* C9: the size of ReportRsp is 4096 bytes whenever report and signer fit in
\* a page: the padding is 4096 - (size of AttestationReport + size of
\* ReportSigner), it is not negative, the signer takes 2084 + 64 + 32 + 32
\* bytes, and report + signer + padding make up the 4096 bytes with nothing in
\* between or after.
C9_ReportRspIsOnePage ==
    layout.status # "none" =>
        /\ layout.signer_size = 2084 + 64 + 32 + 32
        /\ (layout.report_size + layout.signer_size <= 4096)
              => layout.status = "built"
        /\ layout.status = "built" =>
              /\ layout.size = 4096
              /\ layout.reserved_len = 4096 - (layout.report_size + layout.signer_size)
              /\ layout.reserved_len >= 0
              /\ layout.report_size + layout.signer_size + layout.reserved_len
                    = layout.size

\* A build with a signature of 144 bytes, and so a report of 336 bytes.
C9_Witness ==
    /\ layout.status = "built"
    /\ l_sig = [size |-> 144, align |-> 1]
    /\ layout.report_size = 336
    /\ layout.reserved_len = 1548

---------------------------------------------------------------------------
\* Verifiable for (&Certificate, &AttestationReport).

\* The bytes kept of the certificate's user_id.
UidLen == 3

\* The bytes kept of user_pubkey_digest, vm_id, vm_version and measure.
IdLen == 1

\* util's save of a Body: the bytes of the #[repr(C)] struct, field after
\* field, the policy word least significant byte first.
BodyBytes(b) ==
    b.user_pubkey_digest \o b.vm_id \o b.vm_version \o b.report_data
        \o b.mnonce \o b.measure \o to_le_bytes(b.policy)

\* The encoder writing the fields after the body as well.
encode_whole_report(report) ==
    BodyBytes(report.body) \o to_le_bytes(report.sig_usage)
        \o to_le_bytes(report.sig_algo) \o to_le_bytes(report.anonce)

\* codicon::Encoder<crate::Body> for AttestationReport: writer.save(&self.body).
encode(report) == BodyBytes(report.body)

\* TryFrom<&AttestationReport> for Signature: the report's sig, usage PEK,
\* no id and no algorithm.
SignatureOf(report) == [sig |-> report.sig, usage |-> "PEK"]

\* TryFrom<&Certificate> for PublicKey: the certificate's key, or an error
\* for a certificate that holds none.
PublicKeyOf(certificate) ==
    IF certificate.key = "malformed"
    THEN [ok |-> FALSE, key |-> "malformed"]
    ELSE [ok |-> TRUE, key |-> certificate.key]

\* An ideal signature scheme: the signature made with a key for a user id and
\* a message verifies under that key, that id and that message, and under
\* nothing else.
Sign(key, id, msg) == [key |-> key, id |-> id, msg |-> msg]

\* PublicKey::verify(msg, id, sig)
ecdsa_verify(key, id, msg, sig) == sig.sig = Sign(key, id, msg)

\* verify(self): the key of self.0, the signature of self.1, then
\* key.verify(self.1, &user_id[..uid_size], &sig).  The slice panics when
\* uid_size is beyond the end of user_id.
verify_report(certificate, report) ==
    LET key == PublicKeyOf(certificate)
        sig == SignatureOf(report)
    IN IF ~key.ok THEN "KeyError"
       ELSE IF certificate.uid_size > Len(certificate.user_id) THEN "Panic"
       ELSE IF ecdsa_verify(key.key,
                            SubSeq(certificate.user_id, 1, certificate.uid_size),
                            encode(report), sig)
       THEN "Ok"
       ELSE "BadSignature"

Certificates ==
    {[key |-> k, user_id |-> Fill(UidLen, 72, 1), uid_size |-> n] :
        k \in {"pek_a", "pek_b", "malformed"}, n \in {0, UidLen - 1, UidLen, UidLen + 1}}

Bodies ==
    {[user_pubkey_digest |-> Fill(IdLen, 1, 1), vm_id |-> Fill(IdLen, 2, 1),
      vm_version |-> Fill(IdLen, 3, 1), report_data |-> Fill(DataLen, 103, 95),
      mnonce |-> Fill(NonceLen, 16, 1), measure |-> Fill(IdLen, m, 1),
      policy |-> U32(1, 5)] : m \in {77, 78}}

\* The signatures a report may carry: the firmware's, made with pek_a, or none.
Signatures ==
    {Sign("pek_a", SubSeq(Fill(UidLen, 72, 1), 1, n), BodyBytes(b)) :
        n \in {UidLen - 1, UidLen}, b \in Bodies}
    \cup {Sign("none", <<>>, <<>>)}

\* sig_usage, sig_algo and anonce of a report.
Tags ==
    {[sig_usage |-> U32(0, 0), sig_algo |-> U32(0, 0), anonce |-> U32(0, 0)],
     [sig_usage |-> U32(0, 4100), sig_algo |-> U32(0, 4), anonce |-> U32(1027, 513)]}

Reports ==
    {[body |-> b, sig_usage |-> t.sig_usage, sig_algo |-> t.sig_algo,
      anonce |-> t.anonce, sig |-> s] :
        b \in Bodies, t \in Tags, s \in Signatures}

ChainIdle ==
    /\ cert = [key |-> "malformed", user_id |-> Zeros(UidLen), uid_size |-> 0]
    /\ rep_a = [body |-> [user_pubkey_digest |-> Zeros(IdLen), vm_id |-> Zeros(IdLen),
                          vm_version |-> Zeros(IdLen), report_data |-> Zeros(DataLen),
                          mnonce |-> Zeros(NonceLen), measure |-> Zeros(IdLen),
                          policy |-> U32(0, 0)],
                sig_usage |-> U32(0, 0), sig_algo |-> U32(0, 0),
                anonce |-> U32(0, 0), sig |-> Sign("none", <<>>, <<>>)]
    /\ rep_b = rep_a
    /\ res_a = "none"
    /\ res_b = "none"

ChainInit ==
    /\ cert \in Certificates
    /\ rep_a \in Reports
    /\ rep_b \in Reports
    /\ res_a = "none"
    /\ res_b = "none"

VerifyA ==
    /\ res_a' = verify_report(cert, rep_a)
    /\ UNCHANGED <<cert, rep_a, rep_b, res_b,
                   signerVars, reqVars, policyVars, cmdVars, layoutVars>>

VerifyB ==
    /\ res_b' = verify_report(cert, rep_b)
    /\ UNCHANGED <<cert, rep_a, rep_b, res_a,
                   signerVars, reqVars, policyVars, cmdVars, layoutVars>>

\* The report carries the signature, made with the certificate's key and with
\* the first uid_size bytes of its user_id, of the bytes of the body alone.
Genuine(certificate, report) ==
    /\ certificate.key # "malformed"
    /\ certificate.uid_size <= Len(certificate.user_id)
    /\ report.sig.key = certificate.key
    /\ report.sig.id = [i \in 1..certificate.uid_size |-> certificate.user_id[i]]
    /\ report.sig.msg = BodyBytes(report.body)

\* C10: verifying (certificate, report) succeeds exactly when the report's sig
\* is the signature of the bytes of its Body alone under the certificate's key
\* with the first uid_size bytes of user_id as context; so two reports with
\* the same body and the same sig get the same result from the same
\* certificate, whatever their sig_usage, sig_algo and anonce.
C10_SignatureCoversBodyOnly ==
    /\ res_a # "none" => (res_a = "Ok" <=> Genuine(cert, rep_a))
    /\ res_b # "none" => (res_b = "Ok" <=> Genuine(cert, rep_b))
    /\ (res_a # "none" /\ res_b # "none"
        /\ rep_a.body = rep_b.body /\ rep_a.sig = rep_b.sig)
          => res_a = res_b

\* Two reports that differ in sig_usage, sig_algo and anonce only, both
\* accepted under a certificate with a user id.
C10_Witness ==
    /\ res_a = "Ok"
    /\ res_b = "Ok"
    /\ cert.uid_size > 0
    /\ rep_a.body = rep_b.body
    /\ rep_a.sig = rep_b.sig
    /\ rep_a.sig_usage # rep_b.sig_usage
    /\ rep_a.sig_algo # rep_b.sig_algo
    /\ rep_a.anonce # rep_b.anonce

---------------------------------------------------------------------------
\* The specifications: one per part of the program, the other parts at rest.

InitSigner == SignerInit /\ ReqIdle /\ PolicyIdle /\ CmdIdle /\ LayoutIdle /\ ChainIdle
InitReq == SignerIdle /\ ReqIdle /\ PolicyIdle /\ CmdIdle /\ LayoutIdle /\ ChainIdle
InitPolicy == SignerIdle /\ ReqIdle /\ PolicyInit /\ CmdIdle /\ LayoutIdle /\ ChainIdle
InitCmd == SignerIdle /\ ReqIdle /\ PolicyIdle /\ CmdIdle /\ LayoutIdle /\ ChainIdle
InitLayout == SignerIdle /\ ReqIdle /\ PolicyIdle /\ CmdIdle /\ LayoutInit /\ ChainIdle
InitChain == SignerIdle /\ ReqIdle /\ PolicyIdle /\ CmdIdle /\ LayoutIdle /\ ChainInit

NextPolicy == ReadPolicy \/ CallXor
NextCmd == CallFromMut \/ CallFrom
NextChain == VerifyA \/ VerifyB

SpecSigner == InitSigner /\ [][CallVerify]_vars
SpecReq == InitReq /\ [][CallNew]_vars
SpecPolicy == InitPolicy /\ [][NextPolicy]_vars
SpecCmd == InitCmd /\ [][NextCmd]_vars
SpecLayout == InitLayout /\ [][Build]_vars
SpecChain == InitChain /\ [][NextChain]_vars

=============================================================================
